---- MODULE Spec2Model ----
(***************************************************************************)
(* Model of blingalytics/formats.py: the per-column formatters of a        *)
(* report.  A state holds one constructed format object (or none), the     *)
(* ambient locale of the thread, and the outcome of the last call made on  *)
(* the object.  Python values are records tagged by their type in field t; *)
(* Python strings are sequences of one-character strings, so that length,  *)
(* slicing, title-casing and lower-casing are computed, not assumed.       *)
(***************************************************************************)
EXTENDS Integers, Sequences, FiniteSets, TLC

(***************************************************************************)
(* Bounds of the model.                                                    *)
(***************************************************************************)
\* String values are the prefixes of SampleText of length 0..MaxLen.
MaxLen == 8
\* truncate arguments range over the integers -1..MaxTruncate.
MaxTruncate == 5
\* precision arguments range over the integers -1..MaxPrecision.
MaxPrecision == 2

(***************************************************************************)
(* Python values.                                                          *)
(***************************************************************************)
PyNone == [t |-> "None"]
PyInt(n) == [t |-> "int", v |-> n]
\* A float is the exact rational n/d; the inputs are eighths, which binary
\* floating point represents exactly.
PyFloat(n, d) == [t |-> "float", n |-> n, d |-> d]
PyStr(s) == [t |-> "str", s |-> s]
PyUnicode(s) == [t |-> "unicode", s |-> s]
PyBool(b) == [t |-> "bool", v |-> b]
PyDate(y, m, d) == [t |-> "date", y |-> y, m |-> m, d |-> d]
\* The outcome of a call that raises: the exception class and its message.
Raise(exc, msg) == [t |-> "raise", exc |-> exc, msg |-> msg]

IsRaise(r) == r.t = "raise"
IsString(r) == r.t \in {"str", "unicode"}

(***************************************************************************)
(* Characters and digits.                                                  *)
(***************************************************************************)
Lowers == <<"a","b","c","d","e","f","g","h","i","j","k","l","m",
            "n","o","p","q","r","s","t","u","v","w","x","y","z">>
Uppers == <<"A","B","C","D","E","F","G","H","I","J","K","L","M",
            "N","O","P","Q","R","S","T","U","V","W","X","Y","Z">>
Digits == <<"0","1","2","3","4","5","6","7","8","9">>

Range(f) == {f[i] : i \in DOMAIN f}
IndexOf(seq, c) == CHOOSE i \in DOMAIN seq : seq[i] = c
IsLower(c) == c \in Range(Lowers)
IsUpper(c) == c \in Range(Uppers)
IsDigit(c) == c \in Range(Digits)
ToUpper(c) == IF IsLower(c) THEN Uppers[IndexOf(Lowers, c)] ELSE c
ToLower(c) == IF IsUpper(c) THEN Lowers[IndexOf(Uppers, c)] ELSE c

\* s[:k] and s[-k:] of Python, for k >= 0.
Take(s, k) == SubSeq(s, 1, IF k < Len(s) THEN k ELSE Len(s))
LastN(s, k) == SubSeq(s, (IF k < Len(s) THEN Len(s) - k ELSE 0) + 1, Len(s))
DropLastN(s, k) == SubSeq(s, 1, IF k < Len(s) THEN Len(s) - k ELSE 0)

RECURSIVE NatStr(_)
NatStr(n) == IF n < 10 THEN <<Digits[n + 1]>>
             ELSE NatStr(n \div 10) \o <<Digits[(n % 10) + 1]>>
IntStr(n) == IF n < 0 THEN <<"-">> \o NatStr(-n) ELSE NatStr(n)

RECURSIVE ZeroPad(_, _)
ZeroPad(s, w) == IF Len(s) >= w THEN s ELSE ZeroPad(<<"0">> \o s, w)

RECURSIVE Pow10(_)
Pow10(p) == IF p = 0 THEN 1 ELSE 10 * Pow10(p - 1)

Abs(n) == IF n < 0 THEN -n ELSE n
\* Python's int(x) of a rational: truncation toward zero.
Trunc(n, d) == IF n < 0 THEN -((-n) \div d) ELSE n \div d

(***************************************************************************)
(* Python built-ins used by the formatters.                                *)
(***************************************************************************)
\* Numeric view of a value: <<numerator, denominator>>, for the types that
\* Python's %-formatting and arithmetic accept as numbers.
IsNumber(v) == v.t \in {"int", "float", "bool"}
Num(v) == IF v.t = "int" THEN <<v.v, 1>>
          ELSE IF v.t = "bool" THEN <<(IF v.v THEN 1 ELSE 0), 1>>
          ELSE <<v.n, v.d>>

RECURSIVE StripZeros(_)
StripZeros(s) == IF s # <<>> /\ s[Len(s)] = "0" THEN StripZeros(DropLastN(s, 1)) ELSE s

\* str(x) and repr(x) of a float with at most three decimals.
FloatStr(n, d) ==
    LET a == Abs(n)
        frac == StripZeros(ZeroPad(NatStr(((a % d) * 1000) \div d), 3))
    IN (IF n < 0 THEN <<"-">> ELSE <<>>) \o NatStr(a \div d) \o <<".">>
       \o (IF frac = <<>> THEN <<"0">> ELSE frac)

\* str(date): ISO 8601.
IsoDate(v) == ZeroPad(NatStr(v.y), 4) \o <<"-">> \o ZeroPad(NatStr(v.m), 2)
              \o <<"-">> \o ZeroPad(NatStr(v.d), 2)

\* The code point U+00E9 of a unicode string, and the bytes C3 A9 and C2 A3 of
\* a byte string, are the characters outside ASCII.
IsAscii(c) == c \notin {"U+00E9", "xC3", "xA9", "xC2", "xA3"}
AllAscii(s) == \A i \in DOMAIN s : IsAscii(s[i])
\* unicode.encode('utf-8'): one code point to one or two bytes.
RECURSIVE EncodeUtf8(_)
EncodeUtf8(s) ==
    IF s = <<>> THEN <<>>
    ELSE (IF s[1] = "U+00E9" THEN <<"xC3", "xA9">> ELSE <<s[1]>>) \o EncodeUtf8(Tail(s))

\* basestring.encode('utf-8') as lines 111 and 337 call it: a unicode object
\* is encoded; a byte string is first decoded as ASCII, which returns it as
\* it is or raises on a byte outside ASCII.
Encode(v) ==
    IF v.t = "unicode" THEN PyStr(EncodeUtf8(v.s))
    ELSE IF AllAscii(v.s) THEN v
    ELSE Raise("UnicodeDecodeError", <<>>)

\* str(x)
Str(v) ==
    CASE v.t = "None" -> PyStr(<<"N","o","n","e">>)
      [] v.t = "int" -> PyStr(IntStr(v.v))
      [] v.t = "float" -> PyStr(FloatStr(v.n, v.d))
      [] v.t = "bool" -> PyStr(IF v.v THEN <<"T","r","u","e">> ELSE <<"F","a","l","s","e">>)
      [] v.t = "date" -> PyStr(IsoDate(v))
      [] v.t = "str" -> v
      [] v.t = "unicode" -> IF AllAscii(v.s) THEN PyStr(v.s)
                            ELSE Raise("UnicodeEncodeError", <<>>)

RECURSIVE ReprChars(_)
ReprChars(s) ==
    IF s = <<>> THEN <<>>
    ELSE (CASE s[1] = "U+00E9" -> <<"\\","x","e","9">>
            [] s[1] = "xC3" -> <<"\\","x","c","3">>
            [] s[1] = "xA9" -> <<"\\","x","a","9">>
            [] OTHER -> <<s[1]>>) \o ReprChars(Tail(s))

\* repr(x), the %r of the TypeError message of lines 259 and 267.
Repr(v) ==
    CASE v.t = "str" -> <<"'">> \o ReprChars(v.s) \o <<"'">>
      [] v.t = "unicode" -> <<"u", "'">> \o ReprChars(v.s) \o <<"'">>
      [] v.t = "date" -> <<"d","a","t","e","t","i","m","e",".","d","a","t","e","(">>
                         \o NatStr(v.y) \o <<",", " ">> \o NatStr(v.m) \o <<",", " ">>
                         \o NatStr(v.d) \o <<")">>
      [] OTHER -> Str(v).s

\* bool(x)
Truthy(v) ==
    CASE v.t = "None" -> FALSE
      [] v.t = "bool" -> v.v
      [] v.t = "int" -> v.v # 0
      [] v.t = "float" -> v.n # 0
      [] v.t \in {"str", "unicode"} -> v.s # <<>>
      [] OTHER -> TRUE

RECURSIVE ParseNat(_)
ParseNat(s) == IF s = <<>> THEN 0
               ELSE 10 * ParseNat(DropLastN(s, 1)) + (IndexOf(Digits, s[Len(s)]) - 1)
IsNumeral(s) == s # <<>> /\ \A i \in DOMAIN s : IsDigit(s[i])

\* int(x): a PyInt, or the exception int() raises.
IntOf(v) ==
    CASE IsNumber(v) -> PyInt(Trunc(Num(v)[1], Num(v)[2]))
      [] IsString(v) -> IF IsNumeral(v.s) THEN PyInt(ParseNat(v.s))
                        ELSE Raise("ValueError", <<>>)
      [] OTHER -> Raise("TypeError", <<>>)

\* str.title() of a byte string: the first cased character of every run of
\* cased characters is upper-cased, the others lower-cased.
RECURSIVE TitleFrom(_, _)
TitleFrom(s, prevCased) ==
    IF s = <<>> THEN <<>>
    ELSE LET c == s[1]
             cased == IsLower(c) \/ IsUpper(c)
         IN <<(IF prevCased THEN ToLower(c) ELSE ToUpper(c))>> \o TitleFrom(Tail(s), cased)
Title(s) == TitleFrom(s, FALSE)

\* str.lower()
RECURSIVE Lower(_)
Lower(s) == IF s = <<>> THEN <<>> ELSE <<ToLower(s[1])>> \o Lower(Tail(s))

\* The two fields '%.<p>f' % x prints: the signed integer digits and the p
\* fraction digits, rounded half to even on the exact value.
FixedParts(n, d, p) ==
    LET scaled == Abs(n) * Pow10(p)
        q0 == scaled \div d
        r == scaled % d
        q == IF 2 * r > d \/ (2 * r = d /\ q0 % 2 = 1) THEN q0 + 1 ELSE q0
    IN <<(IF n < 0 THEN <<"-">> ELSE <<>>) \o NatStr(q \div Pow10(p)),
         IF p = 0 THEN <<>> ELSE ZeroPad(NatStr(q % Pow10(p)), p)>>

(***************************************************************************)
(* The locale module, for the locales the caller may have set.             *)
(***************************************************************************)
Locales == {"en_US", "en_GB"}

\* locale.localeconv() and locale.nl_langinfo(locale.D_FMT)
LocaleConv(loc) ==
    [thousands_sep |-> <<",">>, decimal_point |-> <<".">>,
     mon_thousands_sep |-> <<",">>, mon_decimal_point |-> <<".">>,
     frac_digits |-> 2, negative_sign |-> <<"-">>,
     currency_symbol |-> IF loc = "en_US" THEN <<"$">> ELSE <<"xC2", "xA3">>,
     d_fmt |-> IF loc = "en_US" THEN <<"%m", "/", "%d", "/", "%Y">>
               ELSE <<"%d", "/", "%m", "/", "%y">>]

\* locale._group: separators between groups of three digits, counted from
\* the right; a leading sign stays in front of the first group.
RECURSIVE Group(_, _)
Group(s, sep) ==
    IF s = <<>> \/ ~IsDigit(s[Len(s)]) THEN s
    ELSE LET g == LastN(s, 3)
             rest == DropLastN(s, 3)
         IN IF rest = <<>> THEN g
            ELSE IF ~IsDigit(rest[Len(rest)]) THEN rest \o g
            ELSE Group(rest, sep) \o sep \o g

\* locale.format('%d', value, grouping)
LocaleFormatD(loc, value, grouping) ==
    IF ~IsNumber(value) THEN Raise("TypeError", <<"%d">>)
    ELSE LET s == IntStr(Trunc(Num(value)[1], Num(value)[2]))
         IN PyStr(IF grouping THEN Group(s, LocaleConv(loc).thousands_sep) ELSE s)

\* locale.format('%.<p>f', value, grouping, monetary)
LocaleFormatF(loc, p, value, grouping, monetary) ==
    IF p < 0 THEN Raise("ValueError", <<"%.">>)
    ELSE IF ~IsNumber(value) THEN Raise("TypeError", <<"%f">>)
    ELSE LET conv == LocaleConv(loc)
             parts == FixedParts(Num(value)[1], Num(value)[2], p)
             sep == IF monetary THEN conv.mon_thousands_sep ELSE conv.thousands_sep
             point == IF monetary THEN conv.mon_decimal_point ELSE conv.decimal_point
             ip == IF grouping THEN Group(parts[1], sep) ELSE parts[1]
         IN PyStr(IF p = 0 THEN ip ELSE ip \o point \o parts[2])

\* locale.currency(val, grouping=...): the symbol before the amount and the
\* sign before the symbol, as en_US and en_GB have it.
LocaleCurrency(loc, val, grouping) ==
    IF ~IsNumber(val) THEN Raise("TypeError", <<"abs">>)
    ELSE LET conv == LocaleConv(loc)
             n == Num(val)
             s == LocaleFormatF(loc, conv.frac_digits, PyFloat(Abs(n[1]), n[2]),
                                grouping, TRUE).s
         IN PyStr((IF n[1] < 0 THEN conv.negative_sign ELSE <<>>)
                  \o conv.currency_symbol \o s)

(***************************************************************************)
(* Dates: date.strftime, and the day count of an Epoch column.             *)
(***************************************************************************)
MonthAbbr == << <<"J","a","n">>, <<"F","e","b">>, <<"M","a","r">>, <<"A","p","r">>,
                <<"M","a","y">>, <<"J","u","n">>, <<"J","u","l">>, <<"A","u","g">>,
                <<"S","e","p">>, <<"O","c","t">>, <<"N","o","v">>, <<"D","e","c">> >>

StrftimeField(v, f) ==
    CASE f = "%m" -> ZeroPad(NatStr(v.m), 2)
      [] f = "%d" -> ZeroPad(NatStr(v.d), 2)
      [] f = "%Y" -> NatStr(v.y)
      [] f = "%y" -> ZeroPad(NatStr(v.y % 100), 2)
      [] f = "%b" -> MonthAbbr[v.m]
      [] OTHER -> <<f>>

RECURSIVE StrftimeFields(_, _)
StrftimeFields(v, fmt) ==
    IF fmt = <<>> THEN <<>>
    ELSE StrftimeField(v, fmt[1]) \o StrftimeFields(v, Tail(fmt))

\* value.strftime(fmt): only dates have the method, and Python 2 refuses
\* years before 1900.
Strftime(v, fmt) ==
    IF v.t # "date" THEN Raise("AttributeError", <<"strftime">>)
    ELSE IF v.y < 1900 THEN Raise("ValueError", <<"year">>)
    ELSE PyStr(StrftimeFields(v, fmt))

\* epoch.hours_to_datetime(hours): the calendar date that many hours after
\* 1970-01-01, or the OverflowError of a date outside years 1..9999.
hours_to_datetime(hours) ==
    LET z == (hours \div 24) + 719468
        era == z \div 146097
        doe == z - era * 146097
        yoe == (doe - doe \div 1460 + doe \div 36524 - doe \div 146096) \div 365
        doy == doe - (365 * yoe + yoe \div 4 - yoe \div 100)
        mp == (5 * doy + 2) \div 153
        d == doy - (153 * mp + 2) \div 5 + 1
        m == IF mp < 10 THEN mp + 3 ELSE mp - 9
        y == yoe + era * 400 + (IF m <= 2 THEN 1 ELSE 0)
    IN IF y < 1 \/ y > 9999 THEN Raise("OverflowError", <<>>) ELSE PyDate(y, m, d)

(***************************************************************************)
(* json.dumps, which escapes U+00E9, given as a code point or as its UTF-8  *)
(* bytes.                                                                  *)
(***************************************************************************)
RECURSIVE JsonChars(_)
JsonChars(s) ==
    IF s = <<>> THEN <<>>
    ELSE IF s[1] = "U+00E9" THEN <<"\\","u","0","0","e","9">> \o JsonChars(Tail(s))
    ELSE IF s[1] = "xC3" /\ Len(s) > 1 /\ s[2] = "xA9"
    THEN <<"\\","u","0","0","e","9">> \o JsonChars(Tail(Tail(s)))
    ELSE <<s[1]>> \o JsonChars(Tail(s))

JsonDumps(v) ==
    CASE v.t = "None" -> PyStr(<<"n","u","l","l">>)
      [] v.t = "bool" -> PyStr(IF v.v THEN <<"t","r","u","e">> ELSE <<"f","a","l","s","e">>)
      [] v.t = "int" -> PyStr(IntStr(v.v))
      [] v.t = "float" -> PyStr(FloatStr(v.n, v.d))
      [] v.t \in {"str", "unicode"} -> PyStr(<<"\"">> \o JsonChars(v.s) \o <<"\"">>)
      [] OTHER -> Raise("TypeError", <<"json">>)

(***************************************************************************)
(* State.                                                                  *)
(***************************************************************************)
VARIABLES
    locale,   \* the thread's locale: "C" until the caller sets it, which it
              \* does before any formatting
    fmt,      \* the format object of the column, or NoFormat
    op,       \* the last operation: "none", "init", "call", "render",
              \* "header_info", or "idle" once the caller has taken its result
    arg,      \* its arguments
    result    \* what it returned, or the exception it raised

vars == <<locale, fmt, op, arg, result>>

NoFormat == [t |-> "object", cls |-> "none"]
\* An attribute the object's class never sets.
Absent == [t |-> "absent"]

S_left == <<"l","e","f","t">>
S_right == <<"r","i","g","h","t">>
S_center == <<"c","e","n","t","e","r">>
S_num == <<"n","u","m">>

Classes == {"Hidden", "Bling", "Epoch", "Date", "Month", "Integer", "Percent",
            "String", "Boolean", "JSON"}

\* cls.__name__
ClassName(cls) ==
    CASE cls = "Hidden" -> <<"H","i","d","d","e","n">>
      [] cls = "Bling" -> <<"B","l","i","n","g">>
      [] cls = "Epoch" -> <<"E","p","o","c","h">>
      [] cls = "Date" -> <<"D","a","t","e">>
      [] cls = "Month" -> <<"M","o","n","t","h">>
      [] cls = "Integer" -> <<"I","n","t","e","g","e","r">>
      [] cls = "Percent" -> <<"P","e","r","c","e","n","t">>
      [] cls = "String" -> <<"S","t","r","i","n","g">>
      [] cls = "Boolean" -> <<"B","o","o","l","e","a","n">>
      [] cls = "JSON" -> <<"J","S","O","N">>

\* The class attribute default_align: Format's 'left' unless the class body
\* overrides it.
default_align(cls) ==
    IF cls \in {"Bling", "Integer", "Percent"} THEN PyStr(S_right) ELSE PyStr(S_left)

\* The class attribute sort_alpha.
sort_alpha(cls) == cls \in {"Date", "Month", "String", "JSON"}

(***************************************************************************)
(* Constructors.  Each returns the new object, or the exception raised.    *)
(***************************************************************************)
\* Format.__init__, which every class's constructor ends in.
Format_init(self, label, align) ==
    [self EXCEPT !.label = label,
                 !.align = IF Truthy(align) THEN align ELSE default_align(self.cls)]

\* The object before any __init__ has run.
New(cls) ==
    [t |-> "object", cls |-> cls, label |-> Absent, align |-> Absent, grouping |-> Absent,
     precision |-> Absent, title |-> Absent, truncate |-> Absent,
     true_term |-> Absent, false_term |-> Absent, none_term |-> Absent]

Integer_init(self, grouping, label, align) ==
    Format_init([self EXCEPT !.grouping = grouping], label, align)

Percent_init(self, precision, label, align) ==
    Format_init([self EXCEPT !.precision = precision], label, align)

\* Fault: the constructor refusing only negative truncate values.
String_init_nonnegative(self, title, truncate, label, align) ==
    IF truncate.t # "None" /\ IsRaise(IntOf(truncate))
    THEN (IF IntOf(truncate).exc = "ValueError"
          THEN Raise("ValueError", <<"must be an integer">>)
          ELSE IntOf(truncate))
    ELSE IF truncate.t # "None" /\ IntOf(truncate).v < 0
    THEN Raise("ValueError", <<"must be a positive integer">>)
    ELSE Format_init([self EXCEPT !.title = title, !.truncate = truncate], label, align)

String_init(self, title, truncate, label, align) ==
    IF truncate.t # "None" /\ IsRaise(IntOf(truncate))
    THEN (IF IntOf(truncate).exc = "ValueError"
          THEN Raise("ValueError", <<"must be an integer">>)
          ELSE IntOf(truncate))
    ELSE IF truncate.t # "None" /\ IntOf(truncate).v < 1
    THEN Raise("ValueError", <<"must be a positive integer">>)
    ELSE Format_init([self EXCEPT !.title = title, !.truncate = truncate], label, align)

Boolean_init(self, terms, label, align) ==
    Format_init([self EXCEPT !.true_term = terms[1], !.false_term = terms[2],
                             !.none_term = terms[3]], label, align)

(***************************************************************************)
(* Methods.  Invoke(self, name, value) is self.<name>(value): the method   *)
(* of the object's own class if the class body defines it, else Format's.  *)
(***************************************************************************)
RECURSIVE Invoke(_, _, _)

\* None replaced by 0, as the numeric formatters do first.
NoneToZero(value) == IF value.t = "None" THEN PyInt(0) ELSE value

Format_format(self, value) ==
    IF IsString(value) THEN Encode(value) ELSE Str(value)

\* Fault: format_html applying Format's own stringification instead of the
\* object's format method.
Format_format_html_static(self, value) == Format_format(self, value)

Format_format_html(self, value) == Invoke(self, "format", value)

Format_format_csv(self, value) == Invoke(self, "format", value)

\* Fault: format_raw stringifying the value.
Format_format_raw_str(self, value) == Str(value)

Format_format_raw(self, value) == value

Bling_format_html(self, value) == LocaleCurrency(locale, NoneToZero(value), TRUE)

Bling_format_csv(self, value) == LocaleCurrency(locale, NoneToZero(value), FALSE)

Bling_format_xls(self, value) == NoneToZero(value)

Epoch_format(self, value) ==
    IF value.t = "None" THEN PyStr(<<>>)
    ELSE IF IsRaise(IntOf(value)) THEN IntOf(value)
    ELSE LET dt == hours_to_datetime(IntOf(value).v * 24)
         IN IF IsRaise(dt) THEN dt ELSE Strftime(dt, LocaleConv(locale).d_fmt)

Date_format(self, value) ==
    IF value.t = "None" THEN PyStr(<<>>)
    ELSE Strftime(value, LocaleConv(locale).d_fmt)

Month_format(self, value) ==
    IF value.t = "None" THEN PyStr(<<>>)
    ELSE Strftime(value, <<"%b", " ", "%Y">>)

\* The try/except of lines 256-259 and 264-267: a TypeError of locale.format
\* is raised again with the value's repr in the message.
NotAnInteger(r, value) ==
    IF IsRaise(r) /\ r.exc = "TypeError"
    THEN Raise("TypeError", <<"Value was not an integer: ">> \o Repr(value))
    ELSE r

Integer_format_html(self, value) ==
    NotAnInteger(LocaleFormatD(locale, NoneToZero(value), Truthy(self.grouping)),
                 NoneToZero(value))

\* Fault: format_csv passing the column's grouping flag on, as format_html does.
Integer_format_csv_grouped(self, value) ==
    NotAnInteger(LocaleFormatD(locale, NoneToZero(value), Truthy(self.grouping)),
                 NoneToZero(value))

Integer_format_csv(self, value) ==
    NotAnInteger(LocaleFormatD(locale, NoneToZero(value), FALSE), NoneToZero(value))

Integer_format_xls(self, value) ==
    IF Truthy(self.grouping) THEN NoneToZero(value) ELSE Str(NoneToZero(value))

Percent_format(self, value) ==
    LET r == LocaleFormatF(locale, self.precision.v, NoneToZero(value), FALSE, FALSE)
    IN IF IsRaise(r) THEN r ELSE PyStr(r.s \o <<"%">>)

\* value / 100 of Python 2: floor division of an int, true division of a
\* float (kept as an exact rational).
Percent_format_xls(self, value) ==
    LET v == NoneToZero(value)
    IN CASE v.t = "int" -> PyInt(v.v \div 100)
         [] v.t = "bool" -> PyInt(0)
         [] v.t = "float" -> PyFloat(v.n, v.d * 100)
         [] OTHER -> Raise("TypeError", <<"/">>)

\* len(value) > self.truncate and self.truncate > 3, with Python 2's ordering
\* of mixed types: every number sorts before every string.
LenExceeds(n, truncate) ==
    CASE truncate.t = "int" -> n > truncate.v
      [] truncate.t = "float" -> n * truncate.d > truncate.n
      [] OTHER -> FALSE
ExceedsThree(truncate) ==
    CASE truncate.t = "int" -> truncate.v > 3
      [] truncate.t = "float" -> truncate.n > 3 * truncate.d
      [] OTHER -> TRUE

\* value[:k] for a k that may not be an integer.
SliceTo(s, k) ==
    IF k.t # "int" THEN Raise("TypeError", <<"slice indices must be integers">>)
    ELSE IF k.v >= 0 THEN PyStr(Take(s, k.v))
    ELSE PyStr(DropLastN(s, -k.v))

\* self.truncate - 3
MinusThree(truncate) ==
    IF truncate.t = "int" THEN PyInt(truncate.v - 3)
    ELSE PyFloat(truncate.n - 3 * truncate.d, truncate.d)

\* Fault: the ellipsis appended to the first truncate characters, not to the
\* first truncate - 3.
String_format_long(self, value) ==
    IF value.t = "None" THEN PyStr(<<>>)
    ELSE LET e == IF IsString(value) THEN Encode(value) ELSE Str(value)
             s == e.s
             cut == IF self.truncate.t # "None" /\ LenExceeds(Len(s), self.truncate)
                    THEN (IF ExceedsThree(self.truncate)
                          THEN (LET head == SliceTo(s, self.truncate)
                                IN IF IsRaise(head) THEN head
                                   ELSE PyStr(head.s \o <<".", ".", ".">>))
                          ELSE SliceTo(s, self.truncate))
                    ELSE PyStr(s)
         IN IF IsRaise(e) THEN e
            ELSE IF IsRaise(cut) THEN cut
            ELSE IF Truthy(self.title) THEN PyStr(Title(cut.s)) ELSE cut

String_format(self, value) ==
    IF value.t = "None" THEN PyStr(<<>>)
    ELSE LET e == IF IsString(value) THEN Encode(value) ELSE Str(value)
             s == e.s
             cut == IF self.truncate.t # "None" /\ LenExceeds(Len(s), self.truncate)
                    THEN (IF ExceedsThree(self.truncate)
                          THEN (LET head == SliceTo(s, MinusThree(self.truncate))
                                IN IF IsRaise(head) THEN head
                                   ELSE PyStr(head.s \o <<".", ".", ".">>))
                          ELSE SliceTo(s, self.truncate))
                    ELSE PyStr(s)
         IN IF IsRaise(e) THEN e
            ELSE IF IsRaise(cut) THEN cut
            ELSE IF Truthy(self.title) THEN PyStr(Title(cut.s)) ELSE cut

Boolean_format(self, value) ==
    IF value.t = "None" THEN self.none_term
    ELSE IF Truthy(value) THEN self.true_term
    ELSE self.false_term

JSON_format(self, value) == JsonDumps(value)

\* The methods each class body defines.
Defines(cls, name) ==
    CASE cls = "Format" ->
           name \in {"format", "format_html", "format_csv", "format_raw", "header_info"}
      [] cls = "Hidden" -> name = "header_info"
      [] cls \in {"Bling", "Integer"} -> name \in {"format_html", "format_csv", "format_xls"}
      [] cls = "Percent" -> name \in {"format", "format_xls"}
      [] cls \in {"Epoch", "Date", "Month", "String", "Boolean", "JSON"} -> name = "format"
      [] OTHER -> FALSE

\* hasattr(self, name)
HasAttr(self, name) == Defines(self.cls, name) \/ Defines("Format", name)

\* The class whose method self.<name> is: the object's class, then Format.
Owner(self, name) == IF Defines(self.cls, name) THEN self.cls ELSE "Format"

Invoke(self, name, value) ==
    LET m == <<Owner(self, name), name>>
    IN CASE m = <<"Format", "format">> -> Format_format(self, value)
         [] m = <<"Format", "format_html">> -> Format_format_html(self, value)
         [] m = <<"Format", "format_csv">> -> Format_format_csv(self, value)
         [] m = <<"Format", "format_raw">> -> Format_format_raw(self, value)
         [] m = <<"Bling", "format_html">> -> Bling_format_html(self, value)
         [] m = <<"Bling", "format_csv">> -> Bling_format_csv(self, value)
         [] m = <<"Bling", "format_xls">> -> Bling_format_xls(self, value)
         [] m = <<"Epoch", "format">> -> Epoch_format(self, value)
         [] m = <<"Date", "format">> -> Date_format(self, value)
         [] m = <<"Month", "format">> -> Month_format(self, value)
         [] m = <<"Integer", "format_html">> -> Integer_format_html(self, value)
         [] m = <<"Integer", "format_csv">> -> Integer_format_csv(self, value)
         [] m = <<"Integer", "format_xls">> -> Integer_format_xls(self, value)
         [] m = <<"Percent", "format">> -> Percent_format(self, value)
         [] m = <<"Percent", "format_xls">> -> Percent_format_xls(self, value)
         [] m = <<"String", "format">> -> String_format(self, value)
         [] m = <<"Boolean", "format">> -> Boolean_format(self, value)
         [] m = <<"JSON", "format">> -> JSON_format(self, value)

\* dict[key] = value
DictSet(d, key, value) ==
    [k \in DOMAIN d \cup {key} |-> IF k = key THEN value ELSE d[k]]

\* Fault: data_type carrying the class name as it is spelled.
Format_header_info_cased(self) ==
    LET info == [label |-> self.label, sortable |-> TRUE,
                 data_type |-> ClassName(self.cls)]
    IN IF self.align = PyStr(S_right) THEN DictSet(info, "className", S_num) ELSE info

Format_header_info(self) ==
    LET info == [label |-> self.label, sortable |-> TRUE,
                 data_type |-> Lower(ClassName(self.cls))]
    IN IF self.align = PyStr(S_right) THEN DictSet(info, "className", S_num) ELSE info

Hidden_header_info(self) == DictSet(Format_header_info(self), "hidden", TRUE)

\* self.header_info
header_info(self) ==
    IF Owner(self, "header_info") = "Hidden" THEN Hidden_header_info(self)
    ELSE Format_header_info(self)

\* The report's choice of formatter for an output format name: the
\* format_NAME method if the object has one, else its format method.
Channels == {"html", "csv", "xls", "raw", "pdf"}
MethodOf(channel) ==
    CASE channel = "html" -> "format_html"
      [] channel = "csv" -> "format_csv"
      [] channel = "xls" -> "format_xls"
      [] channel = "raw" -> "format_raw"
      [] channel = "pdf" -> "format_pdf"

Dispatch(self, channel, value) ==
    IF HasAttr(self, MethodOf(channel)) THEN Invoke(self, MethodOf(channel), value)
    ELSE Invoke(self, "format", value)

(***************************************************************************)
(* The values and constructor arguments the model draws from.              *)
(***************************************************************************)
SampleText == <<"h","e","L","l","o"," ","w","O","r","l","d","s">>
Min(a, b) == IF a < b THEN a ELSE b

\* The last is 'café au' as UTF-8 bytes.
StrValues == {PyStr(SubSeq(SampleText, 1, k)) : k \in 0..Min(MaxLen, Len(SampleText))}
             \cup {PyStr(<<"4", "2">>), PyStr(<<"c", "a", "f", "xC3", "xA9", " ", "a", "u">>)}
UnicodeValues == {PyUnicode(<<"c", "a", "f", "U+00E9", "s">>)}
IntValues == {PyInt(n) : n \in {0, 7, 150, 1000, -1234, 1234567}}
FloatValues == {PyFloat(n, 8) : n \in {12, 99, -1}}
BoolValues == {PyBool(TRUE), PyBool(FALSE)}
DateValues == {PyDate(2011, 1, 23)}
Values == {PyNone} \cup IntValues \cup FloatValues \cup StrValues \cup UnicodeValues
          \cup BoolValues \cup DateValues

LabelArgs == {PyNone, PyStr(<<"T","o","t","a","l">>)}
AlignArgs == {PyNone, PyStr(S_left), PyStr(S_right), PyStr(S_center)}
TruncateArgs == {PyNone} \cup {PyInt(n) : n \in -1..MaxTruncate}
                \cup {PyStr(<<"4">>), PyStr(<<"a","b">>), PyFloat(20, 8), PyFloat(4, 8)}
PrecisionArgs == {PyInt(p) : p \in -1..MaxPrecision}
TermsArgs == {<<PyStr(<<"Y","e","s">>), PyStr(<<"N","o">>), PyStr(<<>>)>>,
              <<PyStr(<<"Y">>), PyStr(<<"N">>), PyStr(<<"?">>)>>}
SimpleClasses == {"Hidden", "Bling", "Epoch", "Date", "Month", "JSON"}
Methods == {"format", "format_html", "format_csv", "format_xls", "format_raw"}

NoArg == [method |-> "none"]

(***************************************************************************)
(* Specification.  The report's column is declared once, by one            *)
(* constructor call; the thread that formats the report then sets its      *)
(* locale and calls the object's methods, one call at a time.              *)
(***************************************************************************)
Init ==
    /\ locale = "C"
    /\ fmt = NoFormat
    /\ op = "none"
    /\ arg = NoArg
    /\ result = PyNone

\* Hidden(...), Bling(...), Epoch(...), Date(...), Month(...), JSON(...): the
\* object built, or no object and the exception.
NewFormat ==
    \E cls \in SimpleClasses, label \in LabelArgs, align \in AlignArgs :
        LET r == Format_init(New(cls), label, align)
        IN /\ op = "none"
           /\ op' = "init"
           /\ arg' = [cls |-> cls, label |-> label, align |-> align]
           /\ fmt' = IF IsRaise(r) THEN NoFormat ELSE r
           /\ result' = IF IsRaise(r) THEN r ELSE PyNone
           /\ UNCHANGED locale

NewInteger ==
    \E grouping \in BoolValues, label \in LabelArgs, align \in AlignArgs :
        LET r == Integer_init(New("Integer"), grouping, label, align)
        IN /\ op = "none"
           /\ op' = "init"
           /\ arg' = [cls |-> "Integer", label |-> label, align |-> align,
                      grouping |-> grouping]
           /\ fmt' = IF IsRaise(r) THEN NoFormat ELSE r
           /\ result' = IF IsRaise(r) THEN r ELSE PyNone
           /\ UNCHANGED locale

NewPercent ==
    \E precision \in PrecisionArgs, label \in LabelArgs, align \in AlignArgs :
        LET r == Percent_init(New("Percent"), precision, label, align)
        IN /\ op = "none"
           /\ op' = "init"
           /\ arg' = [cls |-> "Percent", label |-> label, align |-> align,
                      precision |-> precision]
           /\ fmt' = IF IsRaise(r) THEN NoFormat ELSE r
           /\ result' = IF IsRaise(r) THEN r ELSE PyNone
           /\ UNCHANGED locale

NewString ==
    \E title \in BoolValues, truncate \in TruncateArgs,
       label \in LabelArgs, align \in AlignArgs :
        LET r == String_init(New("String"), title, truncate, label, align)
        IN /\ op = "none"
           /\ op' = "init"
           /\ arg' = [cls |-> "String", label |-> label, align |-> align,
                      title |-> title, truncate |-> truncate]
           /\ fmt' = IF IsRaise(r) THEN NoFormat ELSE r
           /\ result' = IF IsRaise(r) THEN r ELSE PyNone
           /\ UNCHANGED locale

NewBoolean ==
    \E terms \in TermsArgs, label \in LabelArgs, align \in AlignArgs :
        LET r == Boolean_init(New("Boolean"), terms, label, align)
        IN /\ op = "none"
           /\ op' = "init"
           /\ arg' = [cls |-> "Boolean", label |-> label, align |-> align,
                      terms |-> terms]
           /\ fmt' = IF IsRaise(r) THEN NoFormat ELSE r
           /\ result' = IF IsRaise(r) THEN r ELSE PyNone
           /\ UNCHANGED locale

\* The column's format object exists and no call on it is in progress.
Ready == fmt # NoFormat /\ op \in {"init", "idle"}

\* locale.setlocale(...), by the thread that is going to format the report.
SetLocale ==
    \E l \in Locales :
        /\ Ready
        /\ locale = "C"
        /\ locale' = l
        /\ UNCHANGED <<fmt, op, arg, result>>

\* fmt.<name>(value), for a method the object has.
Call ==
    \E name \in Methods, value \in Values :
        /\ Ready
        /\ locale \in Locales
        /\ HasAttr(fmt, name)
        /\ op' = "call"
        /\ arg' = [method |-> name, value |-> value]
        /\ result' = Invoke(fmt, name, value)
        /\ UNCHANGED <<locale, fmt>>

\* The report formats a cell of the column for an output format.
Render ==
    \E channel \in Channels, value \in Values :
        /\ Ready
        /\ locale \in Locales
        /\ op' = "render"
        /\ arg' = [method |-> MethodOf(channel), channel |-> channel, value |-> value]
        /\ result' = Dispatch(fmt, channel, value)
        /\ UNCHANGED <<locale, fmt>>

\* The report reads fmt.header_info for the table header.
HeaderInfo ==
    /\ Ready
    /\ op' = "header_info"
    /\ arg' = NoArg
    /\ result' = header_info(fmt)
    /\ UNCHANGED <<locale, fmt>>

\* The caller takes the result (or handles the exception) of the call.
Return ==
    /\ op \in {"call", "render", "header_info"}
    /\ op' = "idle"
    /\ arg' = NoArg
    /\ result' = PyNone
    /\ UNCHANGED <<locale, fmt>>

Next ==
    \/ NewFormat
    \/ NewInteger
    \/ NewPercent
    \/ NewString
    \/ NewBoolean
    \/ SetLocale
    \/ Call
    \/ Render
    \/ HeaderInfo
    \/ Return

Spec == Init /\ [][Next]_vars

(***************************************************************************)
(* Properties.                                                             *)
(***************************************************************************)
\* A formatting call has just returned (or raised): by a direct method call,
\* or through the report's choice of method for an output format.
Formatted == op \in {"call", "render"}

\* The default rule was applied: format called directly, or chosen by the
\* report for an output format the object has no method for.
ByDefaultRule ==
    \/ op = "call" /\ arg.method = "format"
    \/ op = "render" /\ ~HasAttr(fmt, arg.method)

\* What the same call returns for another value.
Again(value) ==
    IF op = "call" THEN Invoke(fmt, arg.method, value)
    ELSE Dispatch(fmt, arg.channel, value)

\* The rules each kind declares of its own, as the table of the formats reads.
KindDefines(cls, method) ==
    \/ cls \in {"Bling", "Integer"} /\ method \in {"format_html", "format_csv", "format_xls"}
    \/ cls = "Percent" /\ method = "format_xls"

KindRule(self, method, value) ==
    CASE <<self.cls, method>> = <<"Bling", "format_html">> -> Bling_format_html(self, value)
      [] <<self.cls, method>> = <<"Bling", "format_csv">> -> Bling_format_csv(self, value)
      [] <<self.cls, method>> = <<"Bling", "format_xls">> -> Bling_format_xls(self, value)
      [] <<self.cls, method>> = <<"Integer", "format_html">> -> Integer_format_html(self, value)
      [] <<self.cls, method>> = <<"Integer", "format_csv">> -> Integer_format_csv(self, value)
      [] <<self.cls, method>> = <<"Integer", "format_xls">> -> Integer_format_xls(self, value)
      [] <<self.cls, method>> = <<"Percent", "format_xls">> -> Percent_format_xls(self, value)

DefaultRule(self, value) ==
    CASE self.cls \in {"Hidden", "Bling", "Integer"} -> Format_format(self, value)
      [] self.cls = "Epoch" -> Epoch_format(self, value)
      [] self.cls = "Date" -> Date_format(self, value)
      [] self.cls = "Month" -> Month_format(self, value)
      [] self.cls = "Percent" -> Percent_format(self, value)
      [] self.cls = "String" -> String_format(self, value)
      [] self.cls = "Boolean" -> Boolean_format(self, value)
      [] self.cls = "JSON" -> JSON_format(self, value)

\* C1: whatever the kind, the value and the output format, the report's
\* rendering is the value itself on the raw channel, else the result of the
\* kind's own rule for the channel if it declares one, else the result of the
\* kind's default rule; a kind with no rule for the channel still renders.
C1_DispatchResolution ==
    op = "render" =>
        result = IF arg.channel = "raw" THEN arg.value
                 ELSE IF KindDefines(fmt.cls, arg.method)
                      THEN KindRule(fmt, arg.method, arg.value)
                 ELSE DefaultRule(fmt, arg.value)

\* A Text column truncating at 4, rendered for the spreadsheet channel it has
\* no rule for: 'hello' comes out as the default rule cuts it.
C1_Witness ==
    /\ op = "render" /\ arg.channel = "xls"
    /\ fmt.cls = "String" /\ fmt.truncate = PyInt(4) /\ fmt.title = PyBool(FALSE)
    /\ arg.value = PyStr(<<"h","e","L","l","o">>)
    /\ result = PyStr(<<"h",".",".",".">>)

\* The null representation each kind documents.
NullRepresentation ==
    CASE fmt.cls \in {"Bling", "Integer", "Percent"} -> Again(PyInt(0))
      [] fmt.cls \in {"Epoch", "Date", "Month", "String"} -> PyStr(<<>>)
      [] fmt.cls = "Boolean" -> fmt.none_term
      [] fmt.cls = "Hidden" -> PyStr(<<"N","o","n","e">>)

\* C2: on every channel and under the default rule, a null renders as the
\* kind's null representation: as zero renders for Currency, Integer and
\* Percent, as '' for the dates and Text, as noneTerm for Boolean, stringified
\* for Hidden.
C2_NullHandling ==
    (Formatted /\ arg.method # "format_raw" /\ arg.value = PyNone /\ fmt.cls # "JSON")
        => result = NullRepresentation

\* C3: on the raw channel the value passed in is returned as it is, for
\* every kind, every parameter choice and every value, and nothing is raised.
C3_RawPassthrough ==
    (Formatted /\ arg.method = "format_raw") => result = arg.value

\* An Integer column given a string on the raw channel returns the string.
C3_Witness ==
    /\ op = "render" /\ arg.channel = "raw" /\ fmt.cls = "Integer"
    /\ arg.value = PyStr(<<"4", "2">>)
    /\ result = arg.value

NotIntegral(value) == value.t \in {"float", "str", "unicode", "date"}

\* C4: an Integer column rendering a value that is not an integer fails, on
\* every channel but raw, with a TypeError carrying the value's repr.
C4_IntegerTypeMismatch ==
    (Formatted /\ fmt.cls = "Integer" /\ arg.method # "format_raw"
               /\ NotIntegral(arg.value))
        => result = Raise("TypeError", <<"Value was not an integer: ">> \o Repr(arg.value))

\* The value has a string form: lines 336-339 compute it without raising.
HasStringForm(value) == value.t = "str" => AllAscii(value.s)

WellTyped(cls, value) ==
    IF cls = "Percent" THEN value.t \in {"None", "int", "float"}
    ELSE value.t \in {"None", "str", "unicode", "int"} /\ HasStringForm(value)

\* C5: a Text or Percent column that was constructed and is rendering has
\* valid parameters (truncate unset or a positive integer, precision an
\* integer >= 0), and its render of a well-typed value does not fail.
C5_FailFastConfiguration ==
    (Formatted /\ arg.method # "format_raw" /\ fmt.cls \in {"String", "Percent"}
               /\ WellTyped(fmt.cls, arg.value))
        => /\ fmt.cls = "String" =>
                  (fmt.truncate = PyNone \/ (fmt.truncate.t = "int" /\ fmt.truncate.v >= 1))
           /\ fmt.cls = "Percent" => (fmt.precision.t = "int" /\ fmt.precision.v >= 0)
           /\ ~IsRaise(result)

\* The string form of a value: its UTF-8 bytes, or str(value).
StringForm(value) == IF IsString(value) THEN EncodeUtf8(value.s) ELSE Str(value).s

MaybeTitle(self, s) == IF self.title = PyBool(TRUE) THEN Title(s) ELSE s

C7_TruncateValidated ==
    (op = "init" /\ arg.cls = "String" /\ arg.truncate.t \in {"None", "int"})
        => IF arg.truncate.t = "int" /\ arg.truncate.v < 1
           THEN IsRaise(result) /\ result.exc = "ValueError" /\ fmt = NoFormat
           ELSE ~IsRaise(result) /\ fmt.cls = "String"

\* String(truncate=0) raised and built nothing.
C7_Witness ==
    /\ op = "init" /\ arg.cls = "String" /\ arg.truncate = PyInt(0)
    /\ IsRaise(result) /\ fmt = NoFormat

\* The kind tags, lower-cased.
DataType(cls) ==
    CASE cls = "Hidden" -> <<"h","i","d","d","e","n">>
      [] cls = "Bling" -> <<"b","l","i","n","g">>
      [] cls = "Epoch" -> <<"e","p","o","c","h">>
      [] cls = "Date" -> <<"d","a","t","e">>
      [] cls = "Month" -> <<"m","o","n","t","h">>
      [] cls = "Integer" -> <<"i","n","t","e","g","e","r">>
      [] cls = "Percent" -> <<"p","e","r","c","e","n","t">>
      [] cls = "String" -> <<"s","t","r","i","n","g">>
      [] cls = "Boolean" -> <<"b","o","o","l","e","a","n">>
      [] cls = "JSON" -> <<"j","s","o","n">>

\* C8: header_info is sortable, hidden exactly for the Hidden kind, marked
\* 'num' exactly when align is 'right', carries the label and the lower-cased
\* kind tag; reading it leaves the object as it was.
C8_HeaderDescriptor ==
    /\ [](op = "header_info" =>
            /\ result.sortable = TRUE
            /\ ("hidden" \in DOMAIN result) <=> (fmt.cls = "Hidden")
            /\ ("hidden" \in DOMAIN result) => result.hidden = TRUE
            /\ ("className" \in DOMAIN result) <=> (fmt.align = PyStr(S_right))
            /\ ("className" \in DOMAIN result) => result.className = S_num
            /\ result.label = fmt.label
            /\ result.data_type = DataType(fmt.cls))
    /\ [][op' = "header_info" => fmt' = fmt]_vars

\* The header of a right-aligned, labelled Hidden column.
C8_Witness ==
    /\ op = "header_info" /\ fmt.cls = "Hidden" /\ fmt.align = PyStr(S_right)
    /\ result.hidden = TRUE /\ result.className = S_num
    /\ result.label = PyStr(<<"T","o","t","a","l">>)

\* The default alignment of each kind.
DefaultAlign(cls) ==
    IF cls \in {"Bling", "Integer", "Percent"} THEN PyStr(S_right) ELSE PyStr(S_left)

\* C9: a constructed object's align is 'left' or 'right', whatever was passed:
\* the kind's default when align is not supplied, the supplied value when it
\* is valid.
C9_AlignInvariant ==
    fmt # NoFormat =>
        /\ fmt.align \in {PyStr(S_left), PyStr(S_right)}
        /\ (op = "init" /\ arg.align = PyNone) => fmt.align = DefaultAlign(fmt.cls)
        /\ (op = "init" /\ arg.align \in {PyStr(S_left), PyStr(S_right)})
               => fmt.align = arg.align

RECURSIVE WithoutCommas(_)
WithoutCommas(s) ==
    IF s = <<>> THEN <<>>
    ELSE (IF s[1] = "," THEN <<>> ELSE <<s[1]>>) \o WithoutCommas(Tail(s))

\* r is the decimal digits of n with a comma before every group of three
\* digits counted from the right, and none anywhere else.
IsGrouped(r, n) ==
    LET sign == IF n < 0 THEN 1 ELSE 0
        digits == Len(IntStr(n)) - sign
    IN /\ WithoutCommas(r) = IntStr(n)
       /\ Len(r) = sign + digits + (digits - 1) \div 3
       /\ \A i \in DOMAIN r :
              (r[i] = ",") <=> (i > sign /\ (Len(r) - i + 1) % 4 = 0)

\* C10: of an integer n, an Integer column with grouping renders the grouped
\* digits on the display channel; one without grouping renders the plain
\* digits under the default rule; and the export channel never groups.
C10_IntegerGrouping ==
    (Formatted /\ fmt.cls = "Integer" /\ arg.value.t = "int")
        => /\ (arg.method = "format_html" /\ fmt.grouping = PyBool(TRUE))
                  => (result.t = "str" /\ IsGrouped(result.s, arg.value.v))
           /\ (ByDefaultRule /\ fmt.grouping = PyBool(FALSE))
                  => result = PyStr(IntStr(arg.value.v))
           /\ arg.method = "format_csv" => result = PyStr(IntStr(arg.value.v))

\* 1234567 on the display channel of a grouping Integer column.
C10_Witness ==
    /\ op = "render" /\ arg.channel = "html"
    /\ fmt.cls = "Integer" /\ fmt.grouping = PyBool(TRUE)
    /\ arg.value = PyInt(1234567)
    /\ result = PyStr(<<"1",",","2","3","4",",","5","6","7">>)

====
